---- MODULE Spec2Model ----
(***************************************************************************)
(* Connection lifecycle and query execution of the SAP MaxDB handlers.     *)
(*                                                                         *)
(* Three copies of the handler are modelled, each against its own driver   *)
(* and server:                                                             *)
(*   "jdbc"      maxdb_handler/maxdb_handler.py        (MaxDBHandler)       *)
(*   "sap_jdbc"  Sap_MaxDB_handler/maxdb_handler.py    (MaxDBHandler)       *)
(*   "connector" Sap_MaxDB_handler/MaxDB_Handler.py    (MindsDB_Hanlder)    *)
(* A step calls one operation on every handler under test (the set         *)
(* active), with the same outcome of every driver call (the record f).     *)
(* Under Spec one handler is under test at a time.                         *)
(***************************************************************************)
EXTENDS Integers, FiniteSets, Sequences, TLC

\* ---------------------------------------------------------------- bounds
\* Number of distinct handle identities the driver can hand out.
MaxHandles == 3
\* Number of distinct primary keys a statement can insert into the table.
MaxRows == 2

Variants == {"jdbc", "sap_jdbc", "connector"}
None == 0
Handles == 1..MaxHandles
Rows == 1..MaxRows

VARIABLES
    world,    \* [variant -> the handler instance, its driver and its server]
              \*   is_connected  self.is_connected
              \*   connection    self.connection, a handle or None
              \*   open          the handles the driver holds open
              \*   committed     the rows committed on the server
              \*   pending       the rows of the open, uncommitted transaction
              \*   last          the last call on the handler and its outcome
    active    \* the handlers under test

vars == <<world, active>>

\* ------------------------------------------------- outcomes of driver calls
CloseOutcomes == {"ok", "raise_open", "raise_closed"}

\* The outcome of every driver call of one handler call.  An outcome other
\* than success is drawn only for a driver call the handler can come to:
\* nothing follows a rendering or an open that failed, no commit follows an
\* execute that failed, and rollback is called only after a failure.
Fates == {f \in [openOk : BOOLEAN, execOk : BOOLEAN, fetchNoneOk : BOOLEAN,
                 commitOk : BOOLEAN, rollbackOk : BOOLEAN,
                 close : CloseOutcomes, catalogRows : BOOLEAN,
                 renderOk : BOOLEAN] :
            /\ ~f.renderOk => (f.openOk /\ f.execOk /\ f.fetchNoneOk
                                /\ f.close = "ok" /\ f.catalogRows)
            /\ ~f.openOk => (f.execOk /\ f.close = "ok" /\ f.catalogRows)
            /\ ~f.execOk => (f.fetchNoneOk /\ f.commitOk /\ f.catalogRows)
            /\ (f.execOk /\ f.commitOk) => f.rollbackOk}

GoodFate == [openOk |-> TRUE, execOk |-> TRUE, fetchNoneOk |-> TRUE,
             commitOk |-> TRUE, rollbackOk |-> TRUE, close |-> "ok",
             catalogRows |-> TRUE, renderOk |-> TRUE]

\* The driver calls made, and the failures met, during one handler call.
NoLog == [opens |-> 0, closes |-> 0, commits |-> 0, rollbacks |-> 0,
          executes |-> 0, renders |-> 0,
          open_failed |-> FALSE, exec_failed |-> FALSE, fetch_failed |-> FALSE,
          commit_failed |-> FALSE, rollback_failed |-> FALSE,
          close_failed |-> FALSE]

\* What a handler call gives back to its caller.
NoOut == [raised |-> FALSE, handle |-> None, success |-> FALSE,
          error_message |-> FALSE, kind |-> "NONE", rows |-> {},
          columns |-> {}]

Raised == [NoOut EXCEPT !.raised = TRUE]

\* The handler instance of variant v, with its driver and server, at the
\* start of a call.
World(v) == [is_connected |-> world[v].is_connected,
             connection |-> world[v].connection,
             open |-> world[v].open, committed |-> world[v].committed,
             pending |-> world[v].pending, log |-> NoLog]

Min(S) == CHOOSE x \in S : \A y \in S : x <= y

\* Identities the driver may give to a new handle: not open, and not the one
\* the handler still refers to.
FreeHandles(w) == {h \in Handles : h \notin w.open /\ h # w.connection}

\* --------------------------------------------------------------- the driver
\* open(config) -> handle | throws
driver_open(w, f) ==
    IF f.openOk /\ FreeHandles(w) # {}
    THEN LET h == Min(FreeHandles(w)) IN
         [w |-> [w EXCEPT !.open = @ \cup {h}, !.log.opens = @ + 1],
          raised |-> FALSE, handle |-> h]
    ELSE [w |-> [w EXCEPT !.log.opens = @ + 1, !.log.open_failed = TRUE],
          raised |-> TRUE, handle |-> None]

\* handle.close(): the uncommitted transaction of a closed handle is lost.
\* A close that raises leaves the handle either open or closed.
driver_close(w, h, f) ==
    IF f.close = "ok"
    THEN [w |-> [w EXCEPT !.open = @ \ {h}, !.log.closes = @ + 1,
                          !.pending = IF h \in w.open THEN {} ELSE @],
          raised |-> FALSE]
    ELSE IF f.close = "raise_closed"
    THEN [w |-> [w EXCEPT !.open = @ \ {h}, !.log.closes = @ + 1,
                          !.log.close_failed = TRUE,
                          !.pending = IF h \in w.open THEN {} ELSE @],
          raised |-> TRUE]
    ELSE [w |-> [w EXCEPT !.log.closes = @ + 1, !.log.close_failed = TRUE],
          raised |-> TRUE]

\* The columns of the table the statements work on (ID, NAME in the tests),
\* and the column names a catalog query answers with.
DeclaredColumns == {"ID", "NAME"}
CatalogColumns == {"CATALOG_COLUMN"}

\* cursor.fetchall().  On a statement without a result set the driver
\* either raises or gives no rows.
driver_fetchall(w, e, f) ==
    IF e.has_result \/ f.fetchNoneOk
    THEN [w |-> w, raised |-> FALSE, rows |-> e.rows]
    ELSE [w |-> [w EXCEPT !.log.fetch_failed = TRUE],
          raised |-> TRUE, rows |-> {}]

\* handle.execute(text): q is the statement.  An INSERT of a key the table
\* already holds fails; every statement fails on a handle that is not open.
driver_execute(w, h, q, f) ==
    LET visible == w.committed \cup w.pending
        fails == \/ ~f.execOk
                 \/ h \notin w.open
                 \/ (q.kind = "INSERT" /\ q.row \in visible)
    IN  IF fails
        THEN [w |-> [w EXCEPT !.log.executes = @ + 1,
                              !.log.exec_failed = TRUE],
              raised |-> TRUE, has_result |-> FALSE, rows |-> {},
              description |-> {}]
        ELSE IF q.kind = "INSERT"
        THEN [w |-> [w EXCEPT !.log.executes = @ + 1,
                              !.pending = @ \cup {q.row}],
              raised |-> FALSE, has_result |-> FALSE, rows |-> {},
              description |-> {}]
        ELSE IF q.kind = "SELECT"
        THEN [w |-> [w EXCEPT !.log.executes = @ + 1],
              raised |-> FALSE, has_result |-> TRUE, rows |-> visible,
              description |-> DeclaredColumns]
        ELSE \* a catalog query
             [w |-> [w EXCEPT !.log.executes = @ + 1],
              raised |-> FALSE, has_result |-> TRUE,
              rows |-> IF f.catalogRows THEN {1} ELSE {},
              description |-> CatalogColumns]

\* handle.commit()
driver_commit(w, h, f) ==
    IF f.commitOk /\ h \in w.open
    THEN [w |-> [w EXCEPT !.committed = @ \cup w.pending, !.pending = {},
                          !.log.commits = @ + 1],
          raised |-> FALSE]
    ELSE [w |-> [w EXCEPT !.log.commits = @ + 1, !.log.commit_failed = TRUE],
          raised |-> TRUE]

\* handle.rollback()
driver_rollback(w, h, f) ==
    IF f.rollbackOk /\ h \in w.open
    THEN [w |-> [w EXCEPT !.pending = {}, !.log.rollbacks = @ + 1],
          raised |-> FALSE]
    ELSE [w |-> [w EXCEPT !.log.rollbacks = @ + 1,
                          !.log.rollback_failed = TRUE],
          raised |-> TRUE]

\* ---------------------------------------------------------------- __init__
\* Of the attributes the methods of maxdb_handler/maxdb_handler.py read,
\* those its constructor does not assign: connection_args (read by the
\* except block of native_query) and schema (read by get_columns).  Reading
\* them raises AttributeError.
MaxDBHandler_has_attr == [connection_args |-> FALSE, schema |-> FALSE]

\* ----------------------------------------------------------------- connect
\* connect without the test of the flag: it opens a handle at every call.
MaxDBHandler_connect_noguard(w, f) ==
    LET o == driver_open(w, f) IN
    IF o.raised
    THEN [w |-> o.w, out |-> Raised]
    ELSE [w |-> [o.w EXCEPT !.connection = o.handle, !.is_connected = TRUE],
          out |-> [NoOut EXCEPT !.handle = o.handle]]

MaxDBHandler_connect(w, f) ==
    IF w.is_connected
    THEN [w |-> w, out |-> [NoOut EXCEPT !.handle = w.connection]]
    ELSE LET o == driver_open(w, f) IN
         IF o.raised
         THEN [w |-> o.w, out |-> Raised]
         ELSE [w |-> [o.w EXCEPT !.connection = o.handle,
                                 !.is_connected = TRUE],
               out |-> [NoOut EXCEPT !.handle = o.handle]]

\* connect that catches the failure of open, marks the handler connected and
\* returns the handle it holds.
Sap_MaxDBHandler_connect_swallow(w, f) ==
    IF w.is_connected
    THEN [w |-> w, out |-> [NoOut EXCEPT !.handle = w.connection]]
    ELSE LET o == driver_open(w, f) IN
         IF o.raised
         THEN [w |-> [o.w EXCEPT !.is_connected = TRUE],
               out |-> [NoOut EXCEPT !.handle = w.connection]]
         ELSE [w |-> [o.w EXCEPT !.connection = o.handle,
                                 !.is_connected = TRUE],
               out |-> [NoOut EXCEPT !.handle = o.handle]]

Sap_MaxDBHandler_connect(w, f) ==
    IF w.is_connected
    THEN [w |-> w, out |-> [NoOut EXCEPT !.handle = w.connection]]
    ELSE LET o == driver_open(w, f) IN
         IF o.raised
         THEN [w |-> o.w, out |-> Raised]
         ELSE [w |-> [o.w EXCEPT !.connection = o.handle,
                                 !.is_connected = TRUE],
               out |-> [NoOut EXCEPT !.handle = o.handle]]

MindsDB_Hanlder_connect(w, f) ==
    IF w.is_connected = TRUE
    THEN [w |-> w, out |-> [NoOut EXCEPT !.handle = w.connection]]
    ELSE LET o == driver_open(w, f) IN
         IF o.raised
         THEN [w |-> o.w, out |-> Raised]
         ELSE [w |-> [o.w EXCEPT !.is_connected = TRUE,
                                 !.connection = o.handle],
               out |-> [NoOut EXCEPT !.handle = o.handle]]

connect(v, w, f) ==
    IF v = "jdbc" THEN MaxDBHandler_connect(w, f)
    ELSE IF v = "sap_jdbc" THEN Sap_MaxDBHandler_connect(w, f)
    ELSE MindsDB_Hanlder_connect(w, f)

\* -------------------------------------------------------------- disconnect
\* The close is inside try/except: a failure is logged and swallowed, and
\* the assignment of the flag, which follows the close, is skipped.
MaxDBHandler_disconnect(w, f) ==
    IF w.is_connected = FALSE
    THEN [w |-> w, out |-> NoOut]
    ELSE LET c == driver_close(w, w.connection, f) IN
         IF c.raised
         THEN [w |-> c.w, out |-> NoOut]
         ELSE [w |-> [c.w EXCEPT !.is_connected = FALSE], out |-> NoOut]

Sap_MaxDBHandler_disconnect(w, f) ==
    IF w.is_connected = FALSE
    THEN [w |-> w, out |-> NoOut]
    ELSE LET c == driver_close(w, w.connection, f) IN
         IF c.raised
         THEN [w |-> c.w, out |-> NoOut]
         ELSE [w |-> [c.w EXCEPT !.is_connected = FALSE], out |-> NoOut]

\* disconnect without the test of the flag: it closes whatever the handler
\* holds; with no handle held, the call on None raises.
MindsDB_Hanlder_disconnect_noguard(w, f) ==
    IF w.connection = None
    THEN [w |-> w, out |-> Raised]
    ELSE LET c == driver_close(w, w.connection, f) IN
         IF c.raised
         THEN [w |-> c.w, out |-> Raised]
         ELSE [w |-> [c.w EXCEPT !.is_connected = FALSE], out |-> NoOut]

\* No try/except: a failure of close leaves the method before the flag is
\* assigned.
MindsDB_Hanlder_disconnect(w, f) ==
    IF w.is_connected = FALSE
    THEN [w |-> w, out |-> NoOut]
    ELSE LET c == driver_close(w, w.connection, f) IN
         IF c.raised
         THEN [w |-> c.w, out |-> Raised]
         ELSE [w |-> [c.w EXCEPT !.is_connected = FALSE], out |-> NoOut]

disconnect(v, w, f) ==
    IF v = "jdbc" THEN MaxDBHandler_disconnect(w, f)
    ELSE IF v = "sap_jdbc" THEN Sap_MaxDBHandler_disconnect(w, f)
    ELSE MindsDB_Hanlder_disconnect(w, f)

\* ----------------------------------------------------------------- __del__
\* A teardown that lets go of the handler without closing anything.
MaxDBHandler___del___noclose(w, f) == [w |-> w, out |-> NoOut]

\* if self.is_connected is True: self.disconnect()
MaxDBHandler___del__(w, f) ==
    IF w.is_connected = TRUE THEN MaxDBHandler_disconnect(w, f)
    ELSE [w |-> w, out |-> NoOut]

Sap_MaxDBHandler___del__(w, f) ==
    IF w.is_connected = TRUE THEN Sap_MaxDBHandler_disconnect(w, f)
    ELSE [w |-> w, out |-> NoOut]

MindsDB_Hanlder___del__(w, f) ==
    IF w.is_connected = TRUE THEN MindsDB_Hanlder_disconnect(w, f)
    ELSE [w |-> w, out |-> NoOut]

\* -------------------------------------------------------- check_connection
\* An exception of disconnect, raised in the finally block, leaves the
\* method.
MaxDBHandler_check_connection(w, f) ==
    LET need_to_close == (w.is_connected = FALSE)
        c == MaxDBHandler_connect(w, f)
        success == ~c.out.raised
        responseCode == [NoOut EXCEPT !.success = success,
                                      !.error_message = c.out.raised]
    IN  IF success = TRUE /\ need_to_close
        THEN LET d == MaxDBHandler_disconnect(c.w, f) IN
             IF d.out.raised
             THEN [w |-> d.w, out |-> Raised]
             ELSE [w |-> d.w, out |-> responseCode]
        ELSE IF success = FALSE /\ c.w.is_connected = TRUE
        THEN [w |-> [c.w EXCEPT !.is_connected = FALSE],
              out |-> responseCode]
        ELSE [w |-> c.w, out |-> responseCode]

\* A probe that closes the connection whoever opened it.
Sap_MaxDBHandler_check_connection_close(w, f) ==
    LET c == Sap_MaxDBHandler_connect(w, f)
        success == ~c.out.raised
        responseCode == [NoOut EXCEPT !.success = success,
                                      !.error_message = c.out.raised]
    IN  IF success = TRUE
        THEN LET d == Sap_MaxDBHandler_disconnect(c.w, f) IN
             IF d.out.raised
             THEN [w |-> d.w, out |-> Raised]
             ELSE [w |-> d.w, out |-> responseCode]
        ELSE IF c.w.is_connected = TRUE
        THEN [w |-> [c.w EXCEPT !.is_connected = FALSE],
              out |-> responseCode]
        ELSE [w |-> c.w, out |-> responseCode]

Sap_MaxDBHandler_check_connection(w, f) ==
    LET need_to_close == (w.is_connected = FALSE)
        c == Sap_MaxDBHandler_connect(w, f)
        success == ~c.out.raised
        responseCode == [NoOut EXCEPT !.success = success,
                                      !.error_message = c.out.raised]
    IN  IF success = TRUE /\ need_to_close
        THEN LET d == Sap_MaxDBHandler_disconnect(c.w, f) IN
             IF d.out.raised
             THEN [w |-> d.w, out |-> Raised]
             ELSE [w |-> d.w, out |-> responseCode]
        ELSE IF success = FALSE /\ c.w.is_connected = TRUE
        THEN [w |-> [c.w EXCEPT !.is_connected = FALSE],
              out |-> responseCode]
        ELSE [w |-> c.w, out |-> responseCode]

MindsDB_Hanlder_check_connection(w, f) ==
    LET need_to_close == (w.is_connected = FALSE)
        c == MindsDB_Hanlder_connect(w, f)
        success == ~c.out.raised
        response == [NoOut EXCEPT !.success = success,
                                  !.error_message = c.out.raised]
    IN  IF success = TRUE /\ need_to_close
        THEN LET d == MindsDB_Hanlder_disconnect(c.w, f) IN
             IF d.out.raised
             THEN [w |-> d.w, out |-> Raised]
             ELSE [w |-> d.w, out |-> response]
        ELSE IF success = FALSE /\ c.w.is_connected = TRUE
        THEN [w |-> [c.w EXCEPT !.is_connected = FALSE], out |-> response]
        ELSE [w |-> c.w, out |-> response]

\* ------------------------------------------------------------ native_query
ErrorResponse == [NoOut EXCEPT !.kind = "ERROR", !.error_message = TRUE]
OkResponse == [NoOut EXCEPT !.kind = "OK"]
TableResponse(rows, columns) ==
    [NoOut EXCEPT !.kind = "TABLE", !.rows = rows, !.columns = columns]

\* The methods that run a statement are written as a pipeline of steps over
\* a record x of the method's locals:
\*   w              the handler, its driver and its server
\*   out            the response built so far; out.raised: an exception is
\*                  on its way out of the method
\*   need_to_close  the local of that name
\*   conn           the handle connect() returned
\*   failed         an exception was raised inside the try block
\*   has_result, rows, description   what the cursor holds after execute
\* A step leaves x as it is once an exception is on its way out.

\* need_to_close = self.is_connected is False; connection = self.connect()
\* (need_to_close is False in get_tables and get_columns of the jdbc copies,
\* which have no such local and never disconnect).
nq_connect(v, w, f) ==
    LET c == connect(v, w, f) IN
    [w |-> c.w, out |-> c.out, need_to_close |-> (w.is_connected = FALSE),
     conn |-> c.out.handle, failed |-> FALSE, has_result |-> FALSE,
     rows |-> {}, description |-> {}]

\* cursor.execute(query)
nq_execute(x, q, f) ==
    IF x.out.raised THEN x
    ELSE LET e == driver_execute(x.w, x.conn, q, f) IN
         [x EXCEPT !.w = e.w, !.failed = e.raised,
                   !.has_result = e.has_result, !.rows = e.rows,
                   !.description = e.description]

\* maxdb_handler/maxdb_handler.py, lines 117-128: the rows are fetched
\* whatever the statement; a result with rows is answered TABLE and is not
\* committed, a result without rows is answered OK and committed.
MaxDBHandler_nq_result(x, f) ==
    IF x.out.raised \/ x.failed THEN x
    ELSE LET r == driver_fetchall(x.w, x, f)
             k == driver_commit(x.w, x.conn, f)
         IN  IF r.raised THEN [x EXCEPT !.w = r.w, !.failed = TRUE]
             ELSE IF r.rows # {}
             THEN [x EXCEPT !.out = TableResponse(r.rows, x.description)]
             ELSE [x EXCEPT !.w = k.w, !.failed = k.raised,
                            !.out = OkResponse]

\* maxdb_handler/maxdb_handler.py, lines 129-134: the except block reads
\* self.connection_args, which the class never assigns, and calls no
\* rollback.
MaxDBHandler_nq_except(x, f) ==
    IF x.out.raised \/ ~x.failed THEN x
    ELSE IF ~MaxDBHandler_has_attr.connection_args
    THEN [x EXCEPT !.out = Raised]
    ELSE [x EXCEPT !.out = ErrorResponse]

\* Sap_MaxDB_handler, both files: a statement with a result set
\* (cur.description, cur.with_rows) is answered TABLE with the rows fetched,
\* any other OK; every successful statement is committed.
Sap_nq_result(x, f) ==
    IF x.out.raised \/ x.failed THEN x
    ELSE LET k == driver_commit(x.w, x.conn, f) IN
         [x EXCEPT !.w = k.w, !.failed = k.raised,
                   !.out = IF x.has_result
                           THEN TableResponse(x.rows, x.description)
                           ELSE OkResponse]

\* Sap_MaxDB_handler, both files: the except block builds the ERROR response
\* and then calls rollback, outside any try.
Sap_nq_except(x, f) ==
    IF x.out.raised \/ ~x.failed THEN x
    ELSE LET b == driver_rollback(x.w, x.conn, f) IN
         [x EXCEPT !.w = b.w,
                   !.out = IF b.raised THEN Raised ELSE ErrorResponse]

\* The end of native_query without the test of need_to_close: the
\* connection is closed whoever opened it.
nq_close_always(v, x, f) ==
    IF x.out.raised THEN [w |-> x.w, out |-> x.out]
    ELSE LET d == disconnect(v, x.w, f) IN
         [w |-> d.w, out |-> IF d.out.raised THEN Raised ELSE x.out]

\* if need_to_close is True: self.disconnect(); return response
nq_close(v, x, f) ==
    IF x.out.raised \/ ~x.need_to_close THEN [w |-> x.w, out |-> x.out]
    ELSE LET d == disconnect(v, x.w, f) IN
         [w |-> d.w, out |-> IF d.out.raised THEN Raised ELSE x.out]

MaxDBHandler_native_query(w, q, f) ==
    nq_close("jdbc",
        MaxDBHandler_nq_except(
            MaxDBHandler_nq_result(
                nq_execute(nq_connect("jdbc", w, f), q, f), f), f), f)

Sap_MaxDBHandler_native_query(w, q, f) ==
    nq_close("sap_jdbc",
        Sap_nq_except(
            Sap_nq_result(
                nq_execute(nq_connect("sap_jdbc", w, f), q, f), f), f), f)

MindsDB_Hanlder_native_query(w, q, f) ==
    nq_close("connector",
        Sap_nq_except(
            Sap_nq_result(
                nq_execute(nq_connect("connector", w, f), q, f), f), f), f)

\* ------------------------------------------------------------------- query
\* A statement is given as SQL text or as an abstract query (ASTNode).
AsAst(q) == [q EXCEPT !.form = "ast"]
AsText(q) == [q EXCEPT !.form = "text"]

\* SqlalchemyRender('maxdb').get_string(query, with_failback=True): the
\* renderer is built and called; it gives the text of the statement or
\* raises.
render(w, q, f) ==
    [w |-> [w EXCEPT !.log.renders = @ + 1], raised |-> ~f.renderOk,
     text |-> AsText(q)]

\* maxdb_handler/maxdb_handler.py: the renderer is called whatever is
\* given.
MaxDBHandler_query(w, q, f) ==
    LET t == render(w, q, f) IN
    IF t.raised THEN [w |-> t.w, out |-> Raised]
    ELSE MaxDBHandler_native_query(t.w, t.text, f)

\* Sap_MaxDB_handler/maxdb_handler.py: an ASTNode is turned into text by
\* its own to_string(), anything else by str(); the renderer is not used.
Sap_MaxDBHandler_query(w, q, f) ==
    Sap_MaxDBHandler_native_query(w, AsText(q), f)

\* Sap_MaxDB_handler/MaxDB_Handler.py: the renderer is called whatever is
\* given.
MindsDB_Hanlder_query(w, q, f) ==
    LET t == render(w, q, f) IN
    IF t.raised THEN [w |-> t.w, out |-> Raised]
    ELSE MindsDB_Hanlder_native_query(t.w, t.text, f)

\* ------------------------------------------------- get_tables, get_columns
CatalogQuery == [kind |-> "CATALOG", row |-> 0, form |-> "text"]

\* The end of a method that ran its statement outside any try: a failure
\* leaves the method, otherwise the rows are answered as a TABLE.
TableOrRaise(x, columns) ==
    IF x.out.raised THEN [w |-> x.w, out |-> Raised]
    ELSE IF x.failed THEN [w |-> x.w, out |-> Raised]
    ELSE [w |-> x.w, out |-> TableResponse(x.rows, columns)]

\* maxdb_handler/maxdb_handler.py: connect, execute and fetch outside any
\* try, no commit and no disconnect.
MaxDBHandler_get_tables(w, f) ==
    TableOrRaise(nq_execute(nq_connect("jdbc", w, f), CatalogQuery, f),
                 {"table_name"})

\* The frame of two columns refuses rows of one value each.
Sap_TableOrRaise(x) ==
    IF x.out.raised \/ x.failed \/ x.rows # {}
    THEN [w |-> x.w, out |-> Raised]
    ELSE [w |-> x.w, out |-> TableResponse({}, {"table_name", "data_type"})]

\* Sap_MaxDB_handler/maxdb_handler.py: as above; the names, one value per
\* row, are given to a frame of two columns, which the frame refuses unless
\* there is no row.
Sap_MaxDBHandler_get_tables(w, f) ==
    Sap_TableOrRaise(
        nq_execute(nq_connect("sap_jdbc", w, f), CatalogQuery, f))

\* result.data_frame.rename(columns={df.columns[0]: 'table_name'}): a
\* response without a frame has no columns to read.
RenameFirstColumn(result) ==
    IF result.out.raised THEN result
    ELSE IF result.out.kind # "TABLE"
    THEN [w |-> result.w, out |-> Raised]
    ELSE [w |-> result.w,
          out |-> [result.out EXCEPT !.columns = {"table_name"}]]

\* Sap_MaxDB_handler/MaxDB_Handler.py
MindsDB_Hanlder_get_tables(w, f) ==
    RenameFirstColumn(MindsDB_Hanlder_native_query(w, CatalogQuery, f))

\* self.schema, which the class never assigns, is read between connect and
\* execute.
MaxDBHandler_read_schema(x) ==
    IF x.out.raised \/ MaxDBHandler_has_attr.schema THEN x
    ELSE [x EXCEPT !.out = Raised]

\* maxdb_handler/maxdb_handler.py
MaxDBHandler_get_columns(w, f) ==
    TableOrRaise(
        nq_execute(MaxDBHandler_read_schema(nq_connect("jdbc", w, f)),
                   CatalogQuery, f),
        {"column_name", "data_type"})

Sap_MaxDBHandler_get_columns(w, f) ==
    Sap_MaxDBHandler_native_query(w, CatalogQuery, f)

MindsDB_Hanlder_get_columns(w, f) ==
    MindsDB_Hanlder_native_query(w, CatalogQuery, f)

\* ------------------------------------------------------------------- calls
del(v, w, f) ==
    IF v = "jdbc" THEN MaxDBHandler___del__(w, f)
    ELSE IF v = "sap_jdbc" THEN Sap_MaxDBHandler___del__(w, f)
    ELSE MindsDB_Hanlder___del__(w, f)

check_connection(v, w, f) ==
    IF v = "jdbc" THEN MaxDBHandler_check_connection(w, f)
    ELSE IF v = "sap_jdbc" THEN Sap_MaxDBHandler_check_connection(w, f)
    ELSE MindsDB_Hanlder_check_connection(w, f)

native_query(v, w, q, f) ==
    IF v = "jdbc" THEN MaxDBHandler_native_query(w, q, f)
    ELSE IF v = "sap_jdbc" THEN Sap_MaxDBHandler_native_query(w, q, f)
    ELSE MindsDB_Hanlder_native_query(w, q, f)

query(v, w, q, f) ==
    IF v = "jdbc" THEN MaxDBHandler_query(w, q, f)
    ELSE IF v = "sap_jdbc" THEN Sap_MaxDBHandler_query(w, q, f)
    ELSE MindsDB_Hanlder_query(w, q, f)

get_tables(v, w, f) ==
    IF v = "jdbc" THEN MaxDBHandler_get_tables(w, f)
    ELSE IF v = "sap_jdbc" THEN Sap_MaxDBHandler_get_tables(w, f)
    ELSE MindsDB_Hanlder_get_tables(w, f)

get_columns(v, w, f) ==
    IF v = "jdbc" THEN MaxDBHandler_get_columns(w, f)
    ELSE IF v = "sap_jdbc" THEN Sap_MaxDBHandler_get_columns(w, f)
    ELSE MindsDB_Hanlder_get_columns(w, f)

NoQuery == [kind |-> "NONE", row |-> 0, form |-> "text"]
Statements == {[kind |-> "SELECT", row |-> 0, form |-> "text"]}
              \cup {[kind |-> "INSERT", row |-> r, form |-> "text"] :
                       r \in Rows}

\* The server and the network are in order during a call: no driver call is
\* made to fail from outside the handler.
DriverOk(f) ==
    f.openOk /\ f.execOk /\ f.commitOk /\ f.rollbackOk /\ f.close = "ok"

\* The state of the handler of variant v after the call op(q) that gave r,
\* the driver calls having had the outcomes f.
After(v, op, q, f, r) ==
    [is_connected |-> r.w.is_connected, connection |-> r.w.connection,
     open |-> r.w.open, committed |-> r.w.committed, pending |-> r.w.pending,
     last |-> [op |-> op, q |-> q, driver_ok |-> DriverOk(f),
               pre_connected |-> world[v].is_connected,
               pre_connection |-> world[v].connection,
               out |-> r.out, log |-> r.w.log]]

\* ------------------------------------------------------------ specification
Fresh == [is_connected |-> FALSE, connection |-> None, open |-> {},
          committed |-> {}, pending |-> {},
          last |-> [op |-> "init", q |-> NoQuery, driver_ok |-> TRUE,
                    pre_connected |-> FALSE,
                    pre_connection |-> None, out |-> NoOut, log |-> NoLog]]

Init ==
    /\ world = [v \in Variants |-> Fresh]
    /\ active \in {{v} : v \in Variants}

\* On handlers that are all connected a query or a probe neither opens nor
\* closes a connection (connect hands back the stored handle, need_to_close
\* is False), and on handlers that are all disconnected disconnect closes
\* nothing; only maxdb_handler/maxdb_handler.py fetches from a statement
\* whatever it is.  The outcomes of calls that are not made are not drawn.
Drawn(f, op) ==
    /\ (op \notin {"disconnect", "__del__"}
          /\ \A v \in active : world[v].is_connected) =>
          (f.openOk /\ f.close = "ok")
    /\ (op \in {"disconnect", "__del__"}
          /\ \A v \in active : ~world[v].is_connected) =>
          f.close = "ok"
    /\ "jdbc" \notin active => f.fetchNoneOk

\* A handler that was torn down is gone: no call is made on it.
Alive == \A v \in active : world[v].last.op # "__del__"

\* Every action is one call on each handler under test; the other handlers
\* are left as they are.
Connect ==
    \E f \in Fates :
        /\ Alive /\ Drawn(f, "connect")
        /\ f = [GoodFate EXCEPT !.openOk = f.openOk]
        /\ world' = [v \in Variants |->
              IF v \in active
              THEN After(v, "connect", NoQuery, f, connect(v, World(v), f))
              ELSE world[v]]
        /\ UNCHANGED active

Disconnect ==
    \E f \in Fates :
        /\ Alive /\ Drawn(f, "disconnect")
        /\ f = [GoodFate EXCEPT !.close = f.close]
        /\ world' = [v \in Variants |->
              IF v \in active
              THEN After(v, "disconnect", NoQuery, f,
                         disconnect(v, World(v), f))
              ELSE world[v]]
        /\ UNCHANGED active

\* The handler object is discarded.
Del ==
    \E f \in Fates :
        /\ Alive /\ Drawn(f, "__del__")
        /\ f = [GoodFate EXCEPT !.close = f.close]
        /\ world' = [v \in Variants |->
              IF v \in active
              THEN After(v, "__del__", NoQuery, f, del(v, World(v), f))
              ELSE world[v]]
        /\ UNCHANGED active

CheckConnection ==
    \E f \in Fates :
        /\ Alive /\ Drawn(f, "check_connection")
        /\ f = [GoodFate EXCEPT !.openOk = f.openOk, !.close = f.close]
        /\ world' = [v \in Variants |->
              IF v \in active
              THEN After(v, "check_connection", NoQuery, f,
                         check_connection(v, World(v), f))
              ELSE world[v]]
        /\ UNCHANGED active

NativeQuery ==
    \E q \in Statements, f \in Fates :
        /\ f.catalogRows /\ f.renderOk
        /\ Alive /\ Drawn(f, "native_query")
        /\ world' = [v \in Variants |->
              IF v \in active
              THEN After(v, "native_query", q, f,
                         native_query(v, World(v), q, f))
              ELSE world[v]]
        /\ UNCHANGED active

\* query() is given SQL text, as the tests do, or an abstract query.
Query ==
    \E q \in Statements \cup {AsAst(s) : s \in Statements}, f \in Fates :
        /\ f.catalogRows
        /\ Alive /\ Drawn(f, "query")
        /\ world' = [v \in Variants |->
              IF v \in active
              THEN After(v, "query", q, f, query(v, World(v), q, f))
              ELSE world[v]]
        /\ UNCHANGED active

GetTables ==
    \E f \in Fates :
        /\ f.fetchNoneOk /\ f.renderOk
        /\ Alive /\ Drawn(f, "get_tables")
        /\ world' = [v \in Variants |->
              IF v \in active
              THEN After(v, "get_tables", NoQuery, f,
                         get_tables(v, World(v), f))
              ELSE world[v]]
        /\ UNCHANGED active

GetColumns ==
    \E f \in Fates :
        /\ f.fetchNoneOk /\ f.catalogRows /\ f.renderOk
        /\ Alive /\ Drawn(f, "get_columns")
        /\ world' = [v \in Variants |->
              IF v \in active
              THEN After(v, "get_columns", NoQuery, f,
                         get_columns(v, World(v), f))
              ELSE world[v]]
        /\ UNCHANGED active

Next ==
    \/ Connect
    \/ Disconnect
    \/ CheckConnection
    \/ NativeQuery
    \/ Query
    \/ GetTables
    \/ GetColumns
    \/ Del

Spec == Init /\ [][Next]_vars

\* The three copies side by side: every call is made on each of them, with
\* the same statement and the same outcomes of the driver calls.
InitSideBySide ==
    /\ world = [v \in Variants |-> Fresh]
    /\ active = Variants

NextSideBySide ==
    \/ Connect
    \/ Disconnect
    \/ CheckConnection
    \/ NativeQuery

SpecSideBySide == InitSideBySide /\ [][NextSideBySide]_vars

TypeOK ==
    \A v \in Variants :
        /\ world[v].is_connected \in BOOLEAN
        /\ world[v].connection \in Handles \cup {None}
        /\ world[v].open \in SUBSET Handles
        /\ world[v].committed \in SUBSET Rows
        /\ world[v].pending \in SUBSET Rows

\* ------------------------------------------------------------------ claims
Last(v) == world[v].last

\* C1: connect() on a connected handler returns the stored handle and does
\* not call the driver's open, whether it is called directly or from
\* another operation; the driver never holds more than one handle open for
\* a handler.
C1_IdempotentConnect ==
    \A v \in Variants :
        /\ Cardinality(world[v].open) <= 1
        /\ Last(v).pre_connected => Last(v).log.opens = 0
        /\ (Last(v).op = "connect" /\ Last(v).pre_connected) =>
              /\ ~Last(v).out.raised
              /\ Last(v).out.handle = Last(v).pre_connection
              /\ world[v].connection = Last(v).pre_connection
              /\ world[v].is_connected

\* connect() has been called on a connected handler with an open handle.
C1_Witness ==
    \E v \in Variants :
        /\ Last(v).op = "connect"
        /\ Last(v).pre_connected
        /\ Last(v).out.handle \in world[v].open

\* C2: native_query on a disconnected handler that opened a transient
\* connection has closed it when the call ends: close was called and, unless
\* close itself failed, the flag is false and no handle is open.
C2_TransientClosed ==
    \A v \in Variants :
        (/\ Last(v).op = "native_query"
         /\ ~Last(v).pre_connected
         /\ ~Last(v).log.open_failed) =>
            /\ Last(v).log.closes = 1
            /\ ~Last(v).log.close_failed =>
                  (~world[v].is_connected /\ world[v].open = {})

\* C3: a failure of execute or fetch inside native_query is answered with a
\* response of kind ERROR that carries the message; nothing is raised.
C3_ExecuteFailureIsErrorResponse ==
    \A v \in Variants :
        (/\ Last(v).op = "native_query"
         /\ (Last(v).log.exec_failed \/ Last(v).log.fetch_failed)) =>
            /\ ~Last(v).out.raised
            /\ Last(v).out.kind = "ERROR"
            /\ Last(v).out.error_message

\* C4: check_connection on a disconnected handler leaves the flag false and
\* no handle open, whatever the outcome of open and of close.
C4_ProbeLeavesDisconnected ==
    \A v \in Variants :
        (Last(v).op = "check_connection" /\ ~Last(v).pre_connected) =>
            (~world[v].is_connected /\ world[v].open = {})

\* C5: check_connection raises nothing; its status has success true exactly
\* when connect succeeded and carries an error message when connect failed.
C5_CheckConnectionNeverRaises ==
    \A v \in Variants :
        Last(v).op = "check_connection" =>
            /\ ~Last(v).out.raised
            /\ Last(v).out.success = ~Last(v).log.open_failed
            /\ Last(v).log.open_failed => Last(v).out.error_message

\* C6: disconnect on a connected handler leaves the flag false, also when
\* the driver's close raises.
C6_DisconnectClearsFlag ==
    \A v \in Variants :
        (Last(v).op = "disconnect" /\ Last(v).pre_connected) =>
            ~world[v].is_connected

\* C7: disconnect on a disconnected handler raises nothing, calls no driver
\* operation and leaves the flag and the stored handle as they were.
C7_DisconnectNoOp ==
    \A v \in Variants :
        (Last(v).op = "disconnect" /\ ~Last(v).pre_connected) =>
            /\ ~Last(v).out.raised
            /\ Last(v).log = NoLog
            /\ ~world[v].is_connected
            /\ world[v].connection = Last(v).pre_connection

\* disconnect() has been called on a disconnected handler that still holds
\* the handle of an earlier connection.
C7_Witness ==
    \E v \in Variants :
        /\ Last(v).op = "disconnect"
        /\ ~Last(v).pre_connected
        /\ world[v].connection # None

\* C8: when connect() is called on a disconnected handler and the driver's
\* open fails, the call raises, the flag stays false, and the handler holds
\* no other handle than before, which is not an open one.
C8_FailedConnectPropagates ==
    \A v \in Variants :
        (/\ Last(v).op = "connect"
         /\ ~Last(v).pre_connected
         /\ Last(v).log.open_failed) =>
            /\ Last(v).out.raised
            /\ Last(v).out.handle = None
            /\ ~world[v].is_connected
            /\ world[v].connection = Last(v).pre_connection
            /\ world[v].connection \notin world[v].open

\* connect() has failed on a disconnected handler.
C8_Witness ==
    \E v \in Variants :
        /\ Last(v).op = "connect"
        /\ ~Last(v).pre_connected
        /\ Last(v).log.open_failed
        /\ Last(v).out.raised

\* C9: native_query raises nothing; when the transient connection cannot be
\* opened, it answers with a response of kind ERROR and the handler stays
\* disconnected.
C9_NativeQueryNeverRaises ==
    \A v \in Variants :
        Last(v).op = "native_query" =>
            /\ ~Last(v).out.raised
            /\ Last(v).log.open_failed =>
                  (Last(v).out.kind = "ERROR" /\ ~world[v].is_connected)

\* C10: a native_query whose execute fails calls rollback, calls no commit
\* and leaves the committed rows as they were.
C10_FailedStatementRolledBack ==
    [][\A v \in Variants :
          (/\ world'[v].last.op = "native_query"
           /\ world'[v].last.log.exec_failed) =>
              /\ world'[v].last.log.rollbacks >= 1
              /\ world'[v].last.log.commits = 0
              /\ world'[v].committed = world[v].committed]_vars

\* C11: a native_query whose mutating statement executed successfully has
\* called commit before it returns, and on a handle that was still open: a
\* commit that did not fail has made the inserted row permanent.
C11_MutationCommitted ==
    \A v \in Variants :
        (/\ Last(v).op = "native_query"
         /\ Last(v).q.kind = "INSERT"
         /\ Last(v).log.executes = 1
         /\ ~Last(v).log.exec_failed) =>
            /\ Last(v).log.commits >= 1
            /\ ~Last(v).log.commit_failed =>
                  Last(v).q.row \in world[v].committed

\* C12: after a native_query of an INSERT has returned OK, the next
\* native_query of a SELECT on the same handler, the server and the network
\* being in order, returns a TABLE whose rows include the inserted row and
\* whose columns are the declared columns of the table.
C12_InsertSelectRoundTrip ==
    [][\A v \in Variants :
          (/\ world[v].last.op = "native_query"
           /\ world[v].last.q.kind = "INSERT"
           /\ ~world[v].last.out.raised
           /\ world[v].last.out.kind = "OK"
           /\ world'[v].last.op = "native_query"
           /\ world'[v].last.q.kind = "SELECT"
           /\ world'[v].last.driver_ok) =>
              /\ ~world'[v].last.out.raised
              /\ world'[v].last.out.kind = "TABLE"
              /\ world[v].last.q.row \in world'[v].last.out.rows
              /\ world'[v].last.out.columns = DeclaredColumns]_vars

\* C13: a native_query whose statement executed successfully, the server
\* and the network being in order, returns TABLE with the columns of the
\* result and all its rows when the statement has a result set, and OK
\* without rows when it has none; it never raises and never answers ERROR.
C13_ResponseKindMatchesResult ==
    \A v \in Variants :
        (/\ Last(v).op = "native_query"
         /\ Last(v).driver_ok
         /\ Last(v).log.executes = 1
         /\ ~Last(v).log.exec_failed) =>
            /\ ~Last(v).out.raised
            /\ Last(v).q.kind = "SELECT" =>
                  /\ Last(v).out.kind = "TABLE"
                  /\ Last(v).out.columns = DeclaredColumns
                  /\ Last(v).out.rows
                        = world[v].committed \cup world[v].pending
            /\ Last(v).q.kind = "INSERT" =>
                  /\ Last(v).out.kind = "OK"
                  /\ Last(v).out.rows = {}

\* C14: get_tables never raises and always returns TABLE with a column
\* named table_name, whatever the catalog query gave: rows, no rows, a
\* column of another name, or a failure.
C14_GetTablesAlwaysTable ==
    \A v \in Variants :
        Last(v).op = "get_tables" =>
            /\ ~Last(v).out.raised
            /\ Last(v).out.kind = "TABLE"
            /\ "table_name" \in Last(v).out.columns

\* C15: get_columns is native_query of the catalog query, its response
\* handed back as it is: TABLE when the server and the network are in order,
\* and an ERROR response, no exception, when the catalog query fails.
C15_GetColumnsDelegates ==
    [][\A v \in Variants :
          world'[v].last.op = "get_columns" =>
              /\ \E f \in Fates :
                    world'[v] = After(v, "get_columns", NoQuery, f,
                                  native_query(v, World(v), CatalogQuery, f))
              /\ world'[v].last.driver_ok =>
                    (~world'[v].last.out.raised
                       /\ world'[v].last.out.kind = "TABLE")
              /\ (world'[v].last.log.exec_failed
                    /\ ~world'[v].last.log.rollback_failed) =>
                    (~world'[v].last.out.raised
                       /\ world'[v].last.out.kind = "ERROR")]_vars

\* C16: the query operations called on a disconnected handler give back
\* the connection they opened; for get_tables and get_columns: afterwards
\* the flag is false and the handler holds no open handle.
C16_CatalogOperationsReturnToDisconnected ==
    \A v \in Variants :
        (/\ Last(v).op \in {"get_tables", "get_columns"}
         /\ ~Last(v).pre_connected) =>
            /\ ~world[v].is_connected
            /\ world[v].connection \notin world[v].open

\* C17: query() given SQL text does not call the renderer and is
\* native_query of that text: same response, same driver calls, same state.
C17_TextQueryNotRendered ==
    [][\A v \in Variants :
          (/\ world'[v].last.op = "query"
           /\ world'[v].last.q.form = "text") =>
              /\ world'[v].last.log.renders = 0
              /\ \E f \in Fates :
                    world'[v] = After(v, "query", world'[v].last.q, f,
                                  native_query(v, World(v),
                                               world'[v].last.q, f))]_vars

\* C18: between operations is_connected is true exactly when the stored
\* handle is open.
C18_FlagMatchesHandle ==
    \A v \in Variants :
        world[v].is_connected <=> world[v].connection \in world[v].open

\* C19: native_query on a connected handler leaves the connection as it
\* was, whether the statement succeeded or failed: the handler is still
\* connected with the same handle, no handle was opened and none closed.
C19_NativeQueryKeepsConnection ==
    [][\A v \in Variants :
          (/\ world[v].is_connected
           /\ world'[v].last.op = "native_query") =>
              /\ world'[v].last.pre_connected
              /\ world'[v].is_connected
              /\ world'[v].connection = world[v].connection
              /\ world'[v].open = world[v].open
              /\ world'[v].last.log.opens = 0
              /\ world'[v].last.log.closes = 0]_vars

\* A statement failed on a connected handler whose handle is open, and
\* the handler is still connected with that handle open.
C19_Witness ==
    \E v \in Variants :
        /\ Last(v).op = "native_query"
        /\ Last(v).pre_connected
        /\ Last(v).log.exec_failed
        /\ world[v].is_connected
        /\ world[v].connection = Last(v).pre_connection
        /\ world[v].connection \in world[v].open

\* C20: the three copies, given the same calls of connect, disconnect,
\* check_connection and native_query and the same outcomes of the driver
\* calls, agree after every call on the connection flag, on the number of
\* commit and of rollback calls and on the kind of the response.
C20_VariantsAgree ==
    \A v1 \in active, v2 \in active :
        /\ world[v1].is_connected = world[v2].is_connected
        /\ Last(v1).log.commits = Last(v2).log.commits
        /\ Last(v1).log.rollbacks = Last(v2).log.rollbacks
        /\ Last(v1).out.kind = Last(v2).out.kind

C22_ProbeKeepsConnection ==
    [][\A v \in Variants :
          (/\ world[v].is_connected
           /\ world'[v].last.op = "check_connection") =>
              /\ ~world'[v].last.out.raised
              /\ world'[v].last.out.success
              /\ world'[v].is_connected
              /\ world'[v].connection = world[v].connection
              /\ world'[v].open = world[v].open
              /\ world'[v].last.log.opens = 0
              /\ world'[v].last.log.closes = 0]_vars

\* A connected handler with an open handle has been probed.
C22_Witness ==
    \E v \in Variants :
        /\ Last(v).op = "check_connection"
        /\ Last(v).pre_connected
        /\ Last(v).out.success
        /\ world[v].is_connected
        /\ world[v].connection = Last(v).pre_connection
        /\ world[v].connection \in world[v].open

\* C23: a connect that returns hands back an open handle, never one that
\* was closed, whatever calls came before.
C23_ConnectReturnsOpenHandle ==
    \A v \in Variants :
        (Last(v).op = "connect" /\ ~Last(v).out.raised) =>
            /\ Last(v).out.handle = world[v].connection
            /\ Last(v).out.handle \in world[v].open

====
